---------------------------- MODULE Spec2Model ----------------------------
(***************************************************************************)
(* A model of scripts/fair-eva.py, the command-line client of FAIR EVA.   *)
(*                                                                         *)
(* Three specifications share the module:                                  *)
(*   Spec      one run of main(): endpoint lookup, readiness loop, search, *)
(*             evaluation request, row collection, printing, storing;      *)
(*   SpecCalc  calcpoints applied to bounded evaluation results;           *)
(*   SpecFmt   format_msg_for_table applied to bounded message values.     *)
(*                                                                         *)
(* Python values of mixed type are tagged records: PyStr, PyInt, PyFloat,  *)
(* PyNone, PyTuple, PyList, PyDict.  A float is held in hundredths (PyFloat*)
(* (50) is 0.5); scores rounded to 3 decimals are held in thousandths.     *)
(* A Python dict whose order matters is a sequence of <<key, value>>.      *)
(***************************************************************************)
EXTENDS Integers, Sequences, FiniteSets, TLC

VARIABLES
    args,               \* argparse namespace returned by get_input_args()
    pc,                 \* position of the run inside main() / search()
    metadata_endpoint,  \* module global set by main()
    is_api_running,     \* main(): readiness flag
    i,                  \* main(): loop variable of the readiness loop
    connects,           \* number of sock.connect_ex calls made by is_port_open()
    connect_result,     \* is_port_open(): what the last sock.connect_ex returned
    requests,           \* HTTP requests sent so far, in order
    terms,              \* search(): candidates of the search response
    j,                  \* search(): number of inputs read
    ind,                \* search(): last text read by input()
    good,               \* search(): 1 once a valid index was read
    title,              \* module global set by search()
    identifier,         \* main(): identifier to evaluate
    r,                  \* main(): response of the evaluation request
    results,            \* main(): results_all.get(identifier, {}); calcpoints argument
    score_results,      \* main(): rows of collect_score_data
    totals,             \* main(): result of calcpoints
    printed,            \* what was written to standard output, in order
    stored,             \* files written by store()
    term,               \* how the process ended
    message_data,       \* format_msg_for_table argument   (SpecFmt)
    output_message      \* format_msg_for_table result     (SpecFmt)

vars == <<args, pc, metadata_endpoint, is_api_running, i, connects, connect_result, requests,
          terms, j, ind, good, title, identifier, r, results, score_results,
          totals, printed, stored, term, message_data, output_message>>

----------------------------------------------------------------------------
(* Python values *)

PyNone == [type |-> "NoneType"]
PyStr(s) == [type |-> "str", val |-> s]
PyInt(n) == [type |-> "int", val |-> n]
PyFloat(h) == [type |-> "float", h |-> h]
PyTuple(xs) == [type |-> "tuple", items |-> xs]
PyList(xs) == [type |-> "list", items |-> xs]
PyDict(kvs) == [type |-> "dict", items |-> kvs]

Unset == [type |-> "unset"]

\* isinstance(v, str), isinstance(v, dict), isinstance(v, float)
IsStr(v) == v.type = "str"
IsDict(v) == v.type = "dict"
IsFloat(v) == v.type = "float"


\* dict operations on a sequence of <<key, value>> pairs
DictHas(d, k) == \E n \in 1..Len(d.items) : d.items[n][1] = k
DictGet(d, k) == d.items[CHOOSE n \in 1..Len(d.items) : d.items[n][1] = k][2]

\* an outcome of a call: a returned value or a raised exception
Ret(v) == [ok |-> TRUE, val |-> v]
Raise(e) == [ok |-> FALSE, exc |-> e]

----------------------------------------------------------------------------
(* Text conversions *)

Digit(d) == SubSeq("0123456789", d + 1, d + 1)

RECURSIVE NatToStr(_)
NatToStr(n) == IF n < 10 THEN Digit(n) ELSE NatToStr(n \div 10) \o Digit(n % 10)

\* str(n) of an int
IntToStr(n) == IF n < 0 THEN "-" \o NatToStr(-n) ELSE NatToStr(n)

\* repr of a float held in hundredths: shortest form, at least one decimal
FloatToStr(h) ==
    LET a == IF h < 0 THEN -h ELSE h
        frac == a % 100
        decimals == IF frac % 10 = 0 THEN Digit(frac \div 10)
                    ELSE Digit(frac \div 10) \o Digit(frac % 10)
    IN (IF h < 0 THEN "-" ELSE "") \o NatToStr(a \div 100) \o "." \o decimals

\* "%.2f" % x of a float held in hundredths
Fmt2f(h) ==
    LET a == IF h < 0 THEN -h ELSE h
    IN (IF h < 0 THEN "-" ELSE "") \o NatToStr(a \div 100) \o "."
           \o Digit((a % 100) \div 10) \o Digit(a % 10)

RECURSIVE PyRepr(_)
RECURSIVE ReprItems(_, _)
\* repr(v): what str() of a container shows for its members
PyRepr(v) ==
    CASE v.type = "str" -> "'" \o v.val \o "'"
      [] v.type = "int" -> IntToStr(v.val)
      [] v.type = "float" -> FloatToStr(v.h)
      [] v.type = "NoneType" -> "None"
      [] v.type = "dict" -> "{" \o ReprItems(v.items, 1) \o "}"

ReprItems(kvs, n) ==
    IF n > Len(kvs) THEN ""
    ELSE "'" \o kvs[n][1] \o "': " \o PyRepr(kvs[n][2])
           \o (IF n < Len(kvs) THEN ", " ELSE "") \o ReprItems(kvs, n + 1)

\* str(v), also what "%s" % v shows
PyStrOf(v) == IF v.type = "str" THEN v.val ELSE PyRepr(v)

RECURSIVE JoinFrom(_, _, _)
\* sep.join(xs) for a sequence of texts, from position n on
JoinFrom(sep, xs, n) ==
    IF n > Len(xs) THEN ""
    ELSE xs[n] \o (IF n < Len(xs) THEN sep ELSE "") \o JoinFrom(sep, xs, n + 1)

Join(sep, xs) == JoinFrom(sep, xs, 1)

----------------------------------------------------------------------------
(* format_msg_for_table *)

NotAvailable == "Not available"

\* "%s (points: %s)" % (item["message"], item["points"])
AnnotatedMessage(item) ==
    PyStrOf(DictGet(item, "message")) \o " (points: " \o PyStrOf(DictGet(item, "points")) \o ")"

\* whether building the annotated text of one item raises, and what
ItemFault(item) ==
    IF ~IsDict(item) THEN "TypeError"
    ELSE IF ~DictHas(item, "message") \/ ~DictHas(item, "points") THEN "KeyError"
    ELSE "none"

\* the branch len(message_data) > 1 of a sequence whose first item is not text:
\* the list comprehension raises at the first item it cannot annotate
FormatRecords(items) ==
    LET bad == {n \in 1..Len(items) : ItemFault(items[n]) # "none"}
    IN IF bad # {}
       THEN Raise(ItemFault(items[CHOOSE n \in bad : \A m \in bad : n <= m]))
       ELSE Ret(Join("\n", [n \in 1..Len(items) |-> AnnotatedMessage(items[n])]))

\* message_data[0].get("message", "Not available")
FormatSingleRecord(item) ==
    IF DictHas(item, "message") THEN Ret(PyStrOf(DictGet(item, "message")))
    ELSE Ret(NotAvailable)

\* a slip in the count: two records are treated as one
RecordBranch_two(items) ==
    IF Len(items) > 2 THEN FormatRecords(items)
    ELSE FormatSingleRecord(items[1])

\* the record branches are taken by the number of records
RecordBranch(items) ==
    IF Len(items) > 1 THEN FormatRecords(items)
    ELSE FormatSingleRecord(items[1])

format_msg_for_table(md) ==
    IF IsStr(md) THEN Ret(md.val)
    ELSE IF IsDict(md) THEN Ret(PyStrOf(md))
    ELSE IF Len(md.items) > 0
         THEN IF IsStr(md.items[1])
              THEN IF \E n \in 1..Len(md.items) : ~IsStr(md.items[n])
                   THEN Raise("TypeError")
                   ELSE Ret(Join("\n", [n \in 1..Len(md.items) |-> md.items[n].val]))
              ELSE RecordBranch(md.items)
         ELSE Ret(NotAvailable)

----------------------------------------------------------------------------
(* calcpoints *)

FAIR_PRINCIPLES == <<"findable", "accessible", "interoperable", "reusable">>

\* a number in hundredths: an int n is 100*n, a float is held in hundredths
Hundredths(v) == IF v.type = "int" THEN 100 * v.val ELSE v.h

\* round(n / d, digits) where n / d is given in units of 10^-digits:
\* Python rounds a float half to even
RoundHalfEven(n, d) ==
    LET q == n \div d
        rem == n % d
    IN IF 2 * rem < d THEN q
       ELSE IF 2 * rem > d THEN q + 1
       ELSE IF q % 2 = 0 THEN q ELSE q + 1

\* gettext() outside an application context returns its argument
gettext(s) == s

\* one pass of the inner loop: the indicator is annotated and its weighted
\* points are added to the running sums of the principle and of the run
AddIndicator(st, kk) ==
    LET indicator == st.result[st.key][kk]
        weight == indicator.score.weight
        annotated == [f \in DOMAIN indicator \cup {"indicator", "name_smart"} |->
                         IF f = "indicator" THEN gettext(indicator.name \o ".indicator")
                         ELSE IF f = "name_smart" THEN gettext(indicator.name)
                         ELSE indicator[f]]
    IN [st EXCEPT !.result[st.key][kk] = annotated,
                  !.weight_of_tests = @ + weight,
                  !.g_weight = @ + weight,
                  !.result_points = @ + Hundredths(indicator.points) * weight,
                  !.g_points = @ + Hundredths(indicator.points) * weight]

RECURSIVE InnerLoop(_, _)
InnerLoop(st, kk) ==
    IF kk > Len(st.result[st.key]) THEN st
    ELSE InnerLoop(AddIndicator(st, kk), kk + 1)

\* a slip: the principle score rounded to 2 decimals
PrincipleScore_2dec(g_points, g_weight) == 10 * RoundHalfEven(g_points, g_weight)

\* points[key] = round((g_points / g_weight), 3), in thousandths
PrincipleScore(g_points, g_weight) == RoundHalfEven(g_points * 10, g_weight)

\* points["total"] = round((result_points / weight_of_tests), 2), in hundredths
TotalScore(result_points, weight_of_tests) == RoundHalfEven(result_points, weight_of_tests)

\* the body of "for key in keys[:-1]" for one key
PrincipleStep(st, key) ==
    IF st.exc # "none" THEN st
    ELSE IF key \notin DOMAIN st.result THEN [st EXCEPT !.exc = "KeyError"]
    ELSE LET done == InnerLoop([st EXCEPT !.key = key, !.g_weight = 0, !.g_points = 0], 1)
         IN IF done.g_weight = 0 THEN [done EXCEPT !.exc = "ZeroDivisionError"]
            ELSE [done EXCEPT !.points[key] = PrincipleScore(done.g_points, done.g_weight)]

RECURSIVE OuterLoop(_, _, _)
OuterLoop(st, keys, n) ==
    IF n > Len(keys) THEN st
    ELSE OuterLoop(PrincipleStep(st, keys[n]), keys, n + 1)

\* calcpoints with the principles visited in the order keys; the frame st holds
\* the locals of the function and the (mutated) argument
calcpoints_in(keys, result) ==
    LET st0 == [result |-> result,
                points |-> [k \in {keys[n] : n \in 1..Len(keys)} \cup {"total"} |-> 0],
                result_points |-> 0, weight_of_tests |-> 0,
                key |-> "", g_weight |-> 0, g_points |-> 0, exc |-> "none"]
        st == OuterLoop(st0, keys, 1)
    IN IF st.exc # "none" THEN st
       ELSE IF st.weight_of_tests = 0 THEN [st EXCEPT !.exc = "ZeroDivisionError"]
       ELSE [st EXCEPT !.points["total"] = TotalScore(st.result_points, st.weight_of_tests)]

calcpoints(result) == calcpoints_in(FAIR_PRINCIPLES, result)

----------------------------------------------------------------------------
(* collect_score_data *)

\* the entries of the static table the model's indicator names resolve to
FAIR_RDA_INDICATORS ==
    [k \in {"RDA_F1_01M", "RDA_A1_01M"} |->
        IF k = "RDA_F1_01M"
        THEN [id |-> "RDA-F1-01M",
              indicator |-> "Metadata is identified by a persistent identifier"]
        ELSE [id |-> "RDA-A1-01M",
              indicator |-> "Metadata contains information to enable the user to get access to the data"]]

Lowercase == "abcdefghijklmnopqrstuvwxyz"
Uppercase == "ABCDEFGHIJKLMNOPQRSTUVWXYZ"

UpperChar(c) ==
    IF \E n \in 1..Len(Lowercase) : SubSeq(Lowercase, n, n) = c
    THEN LET n == CHOOSE n \in 1..Len(Lowercase) : SubSeq(Lowercase, n, n) = c
         IN SubSeq(Uppercase, n, n)
    ELSE c

RECURSIVE Upper(_)
\* str.upper()
Upper(s) == IF Len(s) = 0 THEN "" ELSE UpperChar(SubSeq(s, 1, 1)) \o Upper(SubSeq(s, 2, Len(s)))

\* the body of the inner loop: the row of one indicator, or the exception raised
IndicatorRow(indicator_result) ==
    LET msg == IF "msg" \in DOMAIN indicator_result THEN indicator_result.msg
               ELSE PyList(<<>>)
        output_msg == format_msg_for_table(msg)
        points == IF IsFloat(indicator_result.points)
                  THEN PyStr(Fmt2f(indicator_result.points.h))
                  ELSE indicator_result.points
        indicator_id_internal == Upper(indicator_result.name)
    IN IF ~output_msg.ok THEN output_msg
       ELSE IF indicator_id_internal \notin DOMAIN FAIR_RDA_INDICATORS THEN Raise("KeyError")
       ELSE Ret(<<FAIR_RDA_INDICATORS[indicator_id_internal].id,
                  FAIR_RDA_INDICATORS[indicator_id_internal].indicator,
                  points,
                  output_msg.val>>)

RECURSIVE Flatten(_, _, _)
\* the indicators of all principles, in the order of FAIR_PRINCIPLES
Flatten(fair_results, keys, n) ==
    IF n > Len(keys) THEN <<>>
    ELSE fair_results[keys[n]] \o Flatten(fair_results, keys, n + 1)

RECURSIVE RowsFrom(_, _)
RowsFrom(indicators, n) ==
    IF n > Len(indicators) THEN Ret(<<>>)
    ELSE LET row == IndicatorRow(indicators[n])
         IN IF ~row.ok THEN row
            ELSE LET rest == RowsFrom(indicators, n + 1)
                 IN IF ~rest.ok THEN rest ELSE Ret(<<row.val>> \o rest.val)

collect_score_data(fair_results) ==
    IF \E n \in 1..Len(FAIR_PRINCIPLES) : FAIR_PRINCIPLES[n] \notin DOMAIN fair_results
    THEN Raise("KeyError")
    ELSE RowsFrom(Flatten(fair_results, FAIR_PRINCIPLES, 1), 1)

----------------------------------------------------------------------------
(* Inputs of a run of main(): arguments, operator input, service answers *)

MaxCandidates == 3      \* most candidates a search response lists

\* sys.exit(-1)
ExitFatal == -1

\* range(1, 5) of the readiness loop
ProbeRangeStart == 1

\* a slip: one more pass of the readiness loop
ProbeRangeStop_more == 5 + 1

ProbeRangeStop == 5

\* max_tries of search()
max_tries == 5

ArgsSet ==
    [repository : {PyNone, PyStr("http://repo/oai")},
     plugin : {"epos", "oai-pmh"},
     search : {PyNone, PyStr("query")},
     id : {PyNone, PyStr("id1")},
     json : BOOLEAN,
     totals : BOOLEAN,
     logs : BOOLEAN,
     store_feather : BOOLEAN,
     store_csv : BOOLEAN]

\* texts the operator may type at the prompt
InputTexts == {"x", "1.5", "-1", "7", "1", "0"}

\* the "distributions" list of a search response with n candidates
Candidates(n) ==
    [k \in 1..n |-> [title |-> "title" \o NatToStr(k - 1), id |-> "cand" \o NatToStr(k - 1)]]

\* the JSON bodies a search may answer with: no "results" key, an empty
\* "results" object, or a "results" object listing 0..MaxCandidates candidates
SearchBodies ==
    {[kind |-> "no_results_key"], [kind |-> "empty_results"]}
    \cup {[kind |-> "distributions", distributions |-> Candidates(n)] : n \in 0..MaxCandidates}

PrincipleSet == {FAIR_PRINCIPLES[n] : n \in 1..Len(FAIR_PRINCIPLES)}

\* an empty dict
EmptyDict == [k \in {} |-> <<>>]

RecordMsg(text, points) == PyDict(<<<<"message", PyStr(text)>>, <<"points", points>>>>)

IndF == [name |-> "rda_f1_01m", points |-> PyInt(1), score |-> [weight |-> 2],
         msg |-> PyList(<<RecordMsg("ok", PyInt(1))>>)]
IndA == [name |-> "rda_a1_01m", points |-> PyFloat(50), score |-> [weight |-> 1],
         msg |-> PyList(<<RecordMsg("a", PyFloat(50)), RecordMsg("b", PyFloat(50))>>)]
IndNoMsg == [name |-> "rda_a1_01m", points |-> PyInt(0), score |-> [weight |-> 1]]
IndUnknown == [name |-> "rda_x9_99m", points |-> PyInt(1), score |-> [weight |-> 1],
               msg |-> PyStr("text")]

\* evaluation results the service may answer with
SampleResults ==
    {[p \in PrincipleSet |-> IF p = "findable" THEN <<IndF, IndNoMsg>> ELSE <<IndA>>],
     [p \in PrincipleSet |-> IF p = "reusable" THEN <<>> ELSE <<IndA>>],
     [p \in PrincipleSet |-> IF p = "findable" THEN <<IndUnknown>> ELSE <<IndA>>],
     [p \in PrincipleSet |-> <<>>]}

\* status codes of the evaluation response; requests' r.ok is status_code < 400
StatusCodes == {200, 404, 500}
ResponseOk(status_code) == status_code < 400

\* the JSON bodies of a successful evaluation response: the result is keyed by
\* an identifier, "evaluator_logs" is optional
EvaluationBodies(id) ==
    {[key |-> k, result |-> res, has_logs |-> l] :
        k \in {id}, res \in SampleResults, l \in BOOLEAN}
    \cup {[key |-> "another-id", result |-> EmptyDict, has_logs |-> l] : l \in BOOLEAN}

\* results_all.get(identifier, {})
ResultsFor(body, id) == IF body.key = id THEN body.result ELSE EmptyDict

----------------------------------------------------------------------------
(* How the process ends *)

Running == [kind |-> "running"]
Exited(code) == [kind |-> "exit", code |-> code]          \* sys.exit(code)
Returned(v) == [kind |-> "return", val |-> v]             \* main() returned
Uncaught(e) == [kind |-> "exception", name |-> e]         \* unhandled exception

\* the exit status the operating system sees: sys.exit(n) keeps the low 8 bits
\* of n, sys.exit() and a return of the module-level call main() give 0, an
\* unhandled exception gives 1
ExitStatus(t) ==
    CASE t.kind = "exit" -> IF t.code.type = "int" THEN t.code.val % 256 ELSE 0
      [] t.kind = "return" -> 0
      [] t.kind = "exception" -> 1

----------------------------------------------------------------------------
(* int() of a typed text *)

RECURSIVE LStrip(_)
LStrip(s) == IF Len(s) > 0 /\ SubSeq(s, 1, 1) = " " THEN LStrip(SubSeq(s, 2, Len(s))) ELSE s

RECURSIVE RStrip(_)
RStrip(s) ==
    IF Len(s) > 0 /\ SubSeq(s, Len(s), Len(s)) = " " THEN RStrip(SubSeq(s, 1, Len(s) - 1)) ELSE s

IsDigit(c) == \E d \in 0..9 : Digit(d) = c
DigitValue(c) == CHOOSE d \in 0..9 : Digit(d) = c

RECURSIVE DigitsValue(_, _)
\* the number written by the digits ds, after the digits already read as acc
DigitsValue(ds, acc) ==
    IF Len(ds) = 0 THEN acc
    ELSE DigitsValue(SubSeq(ds, 2, Len(ds)), 10 * acc + DigitValue(SubSeq(ds, 1, 1)))

\* int(s): surrounding blanks are dropped, one sign is allowed, the rest must be
\* decimal digits; anything else raises ValueError
PyIntOf(s) ==
    LET t == RStrip(LStrip(s))
        signed == Len(t) > 0 /\ SubSeq(t, 1, 1) \in {"+", "-"}
        ds == IF signed THEN SubSeq(t, 2, Len(t)) ELSE t
    IN IF Len(ds) = 0 \/ \E n \in 1..Len(ds) : ~IsDigit(SubSeq(ds, n, n))
       THEN Raise("ValueError")
       ELSE IF signed /\ SubSeq(t, 1, 1) = "-" THEN Ret(-DigitsValue(ds, 0))
       ELSE Ret(DigitsValue(ds, 0))

\* a slip in the lower bound: index 0 is refused
IndexAccepted_from1(text, number_of_items) ==
    LET n == PyIntOf(text)
    IN n.ok /\ n.val > 0 /\ n.val < number_of_items

\* the test of the try block of search(): int(ind) > (-1) and int(ind) < number_of_items
IndexAccepted(text, number_of_items) ==
    LET n == PyIntOf(text)
    IN n.ok /\ n.val > -1 /\ n.val < number_of_items

----------------------------------------------------------------------------
(* store *)

\* "fair_eva_results-%s.%s" % (identifier, file_format) under path
FileName(id, file_format, path) ==
    path \o "/" \o "fair_eva_results-" \o PyStrOf(id) \o "." \o file_format

\* store(identifier, score_data, file_format, path="/tmp"): the exception or exit
\* it ends with, if any, and the file it writes.  A frame of no rows has no
\* columns, so naming its four columns raises ValueError.
store(id, score_data, file_format) ==
    IF Len(score_data) = 0 THEN [end |-> Uncaught("ValueError"), files |-> {}]
    ELSE IF file_format \notin {"feather", "csv"}
         THEN [end |-> Exited(PyInt(ExitFatal)), files |-> {}]
    ELSE [end |-> Running, files |-> {FileName(id, file_format, "/tmp")}]

----------------------------------------------------------------------------
(* print_table *)

\* print_table(indicator_rows, totals): what it prints, and totals after
\* totals.pop("total"); the summary table is printed only for a non-empty totals
print_table(indicator_rows, tot) ==
    IF DOMAIN tot # {}
    THEN [out |-> {"summary_table", "indicator_table"},
          totals |-> [k \in DOMAIN tot \ {"total"} |-> tot[k]]]
    ELSE [out |-> {"indicator_table"}, totals |-> tot]

----------------------------------------------------------------------------
(* main *)

Truthy(v) == v.type = "str" /\ Len(v.val) > 0

Init ==
    /\ args \in ArgsSet
    /\ pc = "start"
    /\ metadata_endpoint = Unset
    /\ is_api_running = FALSE
    /\ i = ProbeRangeStart - 1
    /\ connects = 0
    /\ connect_result = Unset
    /\ requests = <<>>
    /\ terms = Unset
    /\ j = 0
    /\ ind = ""
    /\ good = 0
    /\ title = Unset
    /\ identifier = Unset
    /\ r = Unset
    /\ results = Unset
    /\ score_results = Unset
    /\ totals = Unset
    /\ printed = {}
    /\ stored = {}
    /\ term = Running
    /\ message_data = Unset
    /\ output_message = Unset

\* the process ends: nothing of main() runs after it
End(t) == term' = t /\ pc' = "done"

\* lines 564-581: the metadata endpoint is the --repository argument or, without
\* one, the answer of the service's endpoint lookup
ResolveEndpoint ==
    /\ pc = "start"
    /\ \/ /\ args.repository = PyNone
          /\ requests' = Append(requests, "endpoints")
          /\ \/ /\ End(Uncaught("ConnectionError"))
                /\ UNCHANGED <<metadata_endpoint, printed>>
             \/ /\ printed' = printed \cup {"plugin_not_found"}
                /\ End(Returned(PyStr("Input plugin not found")))
                /\ UNCHANGED metadata_endpoint
             \/ /\ metadata_endpoint' = PyStr("http://endpoint/" \o args.plugin)
                /\ pc' = "probe"
                /\ UNCHANGED <<printed, term>>
       \/ /\ args.repository # PyNone
          /\ metadata_endpoint' = args.repository
          /\ pc' = "probe"
          /\ UNCHANGED <<requests, printed, term>>
    /\ is_api_running' = FALSE
    /\ UNCHANGED <<args, i, connects, connect_result, terms, j, ind, good, title, identifier, r,
                   results, score_results, totals, stored, message_data, output_message>>

\* what sock.connect_ex may return: 0, or an error number (ECONNREFUSED)
ConnectResults == {0, 111}

\* is_port_open(): the port is open when connect_ex returned 0
is_port_open(res) == res = 0

\* lines 583-591: one pass of the readiness loop
ProbeOnce ==
    /\ pc = "probe"
    /\ i + 1 < ProbeRangeStop
    /\ i' = i + 1
    /\ connects' = connects + 1
    /\ \E res \in ConnectResults :
          /\ connect_result' = PyInt(res)
          /\ IF is_port_open(res)
             THEN is_api_running' = TRUE /\ pc' = "probed"
             ELSE /\ is_api_running' = is_api_running
                  /\ pc' = IF i' + 1 < ProbeRangeStop THEN "probe" ELSE "probed"
    /\ UNCHANGED <<args, metadata_endpoint, requests, terms, j, ind, good, title,
                   identifier, r, results, score_results, totals, printed, stored,
                   term, message_data, output_message>>

\* lines 592-598: exit when the service never answered, else pick the identifier
AfterProbe ==
    /\ pc = "probed"
    /\ IF ~is_api_running
       THEN End(Exited(PyInt(ExitFatal))) /\ UNCHANGED identifier
       ELSE IF Truthy(args.search)
            THEN pc' = "search" /\ UNCHANGED <<identifier, term>>
            ELSE identifier' = args.id /\ pc' = "log" /\ UNCHANGED term
    /\ UNCHANGED <<args, metadata_endpoint, is_api_running, i, connects, connect_result, requests,
                   terms, j, ind, good, title, r, results, score_results, totals,
                   printed, stored, message_data, output_message>>

\* search(), lines 460-497: the search request and the table of candidates
SearchRequest ==
    /\ pc = "search"
    /\ IF args.plugin \in {"epos", "epos_prod"}
       THEN /\ requests' = Append(requests, "search")
            /\ \/ /\ End(Uncaught("ConnectionError"))
                  /\ UNCHANGED <<terms, printed>>
               \/ \E body \in SearchBodies :
                    IF body.kind \in {"no_results_key", "empty_results"}
                    THEN /\ End(Exited(PyInt(-2)))
                         /\ UNCHANGED <<terms, printed>>
                    ELSE /\ terms' = body
                         /\ printed' = printed \cup {"candidates_table"}
                         /\ pc' = "input"
                         /\ UNCHANGED term
       ELSE /\ End(Exited(PyNone))
            /\ UNCHANGED <<requests, terms, printed>>
    /\ good' = 0
    /\ UNCHANGED <<args, metadata_endpoint, is_api_running, i, connects, connect_result, j, ind,
                   title, identifier, r, results, score_results, totals, stored,
                   message_data, output_message>>

\* search(), lines 498-511: one pass of the input loop
ReadIndex ==
    /\ pc = "input"
    /\ j < max_tries
    /\ \E text \in InputTexts :
          LET number_of_items == Len(terms.distributions)
              accepted == IndexAccepted(text, number_of_items)
              now_good == IF accepted THEN 1 ELSE good
          IN /\ ind' = text
             /\ j' = j + 1
             /\ good' = now_good
             /\ printed' = IF PyIntOf(text).ok THEN printed ELSE printed \cup {"hint"}
             /\ pc' = IF now_good = 1 \/ j + 1 >= max_tries THEN "chosen" ELSE "input"
    /\ UNCHANGED <<args, metadata_endpoint, is_api_running, i, connects, connect_result, requests,
                   terms, title, identifier, r, results, score_results, totals,
                   stored, term, message_data, output_message>>

\* search(), lines 512-517, and the assignment of line 596: the empty tuple
\* after max_tries, else the id of the chosen candidate; the frame is dropped
SearchReturn ==
    /\ pc = "chosen"
    /\ IF good = 0
       THEN /\ printed' = printed \cup {"max_tries"}
            /\ identifier' = PyTuple(<<>>)
            /\ UNCHANGED title
       ELSE /\ title' = PyStr(terms.distributions[PyIntOf(ind).val + 1].title)
            /\ identifier' = PyStr(terms.distributions[PyIntOf(ind).val + 1].id)
            /\ UNCHANGED printed
    /\ terms' = Unset /\ j' = 0 /\ ind' = "" /\ good' = 0
    /\ pc' = "log"
    /\ UNCHANGED <<args, metadata_endpoint, is_api_running, i, connects, connect_result, requests,
                   r, results, score_results, totals, stored, term, message_data,
                   output_message>>

\* lines 600-611: "search == True" compares the function search with True and is
\* never true, so the message is "Evaluating item with id : " + identifier,
\* which raises TypeError unless identifier is a str
LogEvaluating ==
    /\ pc = "log"
    /\ IF IsStr(identifier)
       THEN pc' = "post" /\ UNCHANGED term
       ELSE End(Uncaught("TypeError"))
    /\ UNCHANGED <<args, metadata_endpoint, is_api_running, i, connects, connect_result, requests,
                   terms, j, ind, good, title, identifier, r, results, score_results,
                   totals, printed, stored, message_data, output_message>>

\* a slip: the fatal status of the other exits instead of the response's
EvaluationFailure_fatal(status_code) == Exited(PyInt(ExitFatal))

\* sys.exit(r.status_code)
EvaluationFailure(status_code) == Exited(PyInt(status_code))

\* lines 613-621: the evaluation request and its response
Evaluate ==
    /\ pc = "post"
    /\ requests' = Append(requests, "evaluate")
    /\ \/ /\ End(Uncaught("ConnectionError"))
          /\ UNCHANGED <<r, results>>
       \/ \E status_code \in StatusCodes :
            /\ ~ResponseOk(status_code)
            /\ r' = [status_code |-> status_code]
            /\ End(EvaluationFailure(status_code))
            /\ UNCHANGED results
       \/ \E status_code \in StatusCodes, body \in EvaluationBodies(identifier.val) :
            /\ ResponseOk(status_code)
            /\ r' = [status_code |-> status_code, body |-> body]
            /\ results' = [type |-> "dict", val |-> ResultsFor(body, identifier.val)]
            /\ pc' = "collect"
            /\ UNCHANGED term
    /\ UNCHANGED <<args, metadata_endpoint, is_api_running, i, connects, connect_result, terms, j,
                   ind, good, title, identifier, score_results, totals, printed,
                   stored, message_data, output_message>>

\* line 623
CollectRows ==
    /\ pc = "collect"
    /\ LET rows == collect_score_data(results.val)
       IN IF rows.ok
          THEN score_results' = PyList(rows.val) /\ pc' = "render" /\ UNCHANGED term
          ELSE End(Uncaught(rows.exc)) /\ UNCHANGED score_results
    /\ UNCHANGED <<args, metadata_endpoint, is_api_running, i, connects, connect_result, requests,
                   terms, j, ind, good, title, identifier, r, results, totals,
                   printed, stored, message_data, output_message>>

\* lines 625-631: the result as JSON, or the tables, with totals on request
Render ==
    /\ pc = "render"
    /\ IF args.json
       THEN /\ printed' = printed \cup {"json"}
            /\ pc' = "logs"
            /\ UNCHANGED <<results, totals, term>>
       ELSE IF args.totals
            THEN LET st == calcpoints(results.val)
                 IN /\ results' = [type |-> "dict", val |-> st.result]
                    /\ IF st.exc # "none"
                       THEN End(Uncaught(st.exc)) /\ UNCHANGED <<totals, printed>>
                       ELSE LET shown == print_table(score_results.items, st.points)
                            IN /\ totals' = [type |-> "dict", val |-> shown.totals]
                               /\ printed' = printed \cup shown.out
                               /\ pc' = "logs"
                               /\ UNCHANGED term
            ELSE LET shown == print_table(score_results.items, EmptyDict)
                 IN /\ totals' = [type |-> "dict", val |-> shown.totals]
                    /\ printed' = printed \cup shown.out
                    /\ pc' = "logs"
                    /\ UNCHANGED <<results, term>>
    /\ UNCHANGED <<args, metadata_endpoint, is_api_running, i, connects, connect_result, requests,
                   terms, j, ind, good, title, identifier, r, score_results, stored,
                   message_data, output_message>>

\* lines 632-635
PrintLogs ==
    /\ pc = "logs"
    /\ IF args.logs
       THEN IF r.body.has_logs
            THEN printed' = printed \cup {"evaluator_logs"} /\ pc' = "store_feather"
                 /\ UNCHANGED term
            ELSE printed' = printed \cup {"evaluator_logs_header"}
                 /\ End(Uncaught("KeyError"))
       ELSE pc' = "store_feather" /\ UNCHANGED <<printed, term>>
    /\ UNCHANGED <<args, metadata_endpoint, is_api_running, i, connects, connect_result, requests,
                   terms, j, ind, good, title, identifier, r, results, score_results,
                   totals, stored, message_data, output_message>>

\* a call store(identifier, score_results, file_format) made when wanted
StoreAs(wanted, file_format, next_pc) ==
    IF wanted
    THEN LET o == store(identifier, score_results.items, file_format)
         IN /\ stored' = stored \cup o.files
            /\ IF o.end = Running THEN pc' = next_pc /\ UNCHANGED term ELSE End(o.end)
    ELSE pc' = next_pc /\ UNCHANGED <<stored, term>>

\* lines 637-638
StoreFeather ==
    /\ pc = "store_feather"
    /\ StoreAs(args.store_feather, "feather", "store_csv")
    /\ UNCHANGED <<args, metadata_endpoint, is_api_running, i, connects, connect_result, requests,
                   terms, j, ind, good, title, identifier, r, results, score_results,
                   totals, printed, message_data, output_message>>

\* lines 639-640 and the end of main()
StoreCsv ==
    /\ pc = "store_csv"
    /\ StoreAs(args.store_csv, "csv", "return")
    /\ UNCHANGED <<args, metadata_endpoint, is_api_running, i, connects, connect_result, requests,
                   terms, j, ind, good, title, identifier, r, results, score_results,
                   totals, printed, message_data, output_message>>

\* main() returns None and the interpreter ends
ReturnFromMain ==
    /\ pc = "return"
    /\ End(Returned(PyNone))
    /\ UNCHANGED <<args, metadata_endpoint, is_api_running, i, connects, connect_result, requests,
                   terms, j, ind, good, title, identifier, r, results, score_results,
                   totals, printed, stored, message_data, output_message>>

Next ==
    \/ ResolveEndpoint
    \/ ProbeOnce
    \/ AfterProbe
    \/ SearchRequest
    \/ ReadIndex
    \/ SearchReturn
    \/ LogEvaluating
    \/ Evaluate
    \/ CollectRows
    \/ Render
    \/ PrintLogs
    \/ StoreFeather
    \/ StoreCsv
    \/ ReturnFromMain

Spec == Init /\ [][Next]_vars

----------------------------------------------------------------------------
(* calcpoints on bounded evaluation results *)

MaxIndicators == 5      \* most indicators an evaluation result holds in all

\* indicator results by points and weight; a weight of 0 is possible
CalcIndicators ==
    {[name |-> "rda_f1_01m", points |-> PyInt(1), score |-> [weight |-> 2]],
     [name |-> "rda_a1_01m", points |-> PyFloat(50), score |-> [weight |-> 1]],
     [name |-> "rda_a1_01m", points |-> PyInt(0), score |-> [weight |-> 0]]}

\* the results of S, and each with one more indicator in one principle
OneMore(S) ==
    S \cup {[res EXCEPT ![p] = Append(@, indicator)] :
               res \in S, p \in PrincipleSet, indicator \in CalcIndicators}

RECURSIVE ResultsUpTo(_)
\* the evaluation results of at most n indicators
ResultsUpTo(n) ==
    IF n = 0 THEN {[p \in PrincipleSet |-> <<>>]} ELSE OneMore(ResultsUpTo(n - 1))

InitCalc ==
    /\ results \in {[type |-> "dict", val |-> res] : res \in ResultsUpTo(MaxIndicators)}
    /\ pc = "calcpoints"
    /\ args = Unset
    /\ metadata_endpoint = Unset
    /\ is_api_running = FALSE
    /\ i = 0
    /\ connects = 0
    /\ connect_result = Unset
    /\ requests = <<>>
    /\ terms = Unset
    /\ j = 0
    /\ ind = ""
    /\ good = 0
    /\ title = Unset
    /\ identifier = Unset
    /\ r = Unset
    /\ score_results = Unset
    /\ totals = Unset
    /\ printed = {}
    /\ stored = {}
    /\ term = Running
    /\ message_data = Unset
    /\ output_message = Unset

\* totals = calcpoints(results)
CallCalcpoints ==
    /\ pc = "calcpoints"
    /\ LET st == calcpoints(results.val)
       IN /\ results' = [type |-> "dict", val |-> st.result]
          /\ IF st.exc # "none"
             THEN End(Uncaught(st.exc)) /\ UNCHANGED totals
             ELSE /\ totals' = [type |-> "dict", val |-> st.points]
                  /\ pc' = "done"
                  /\ UNCHANGED term
    /\ UNCHANGED <<args, metadata_endpoint, is_api_running, i, connects, connect_result, requests,
                   terms, j, ind, good, title, identifier, r, score_results, printed,
                   stored, message_data, output_message>>

NextCalc == CallCalcpoints

SpecCalc == InitCalc /\ [][NextCalc]_vars

----------------------------------------------------------------------------
(* format_msg_for_table on bounded messages *)

MaxMessageItems == 3    \* most items of a message that is a sequence

MessageTexts == {"a", "b"}

\* {message, points} records, one without a message and one without points
MessageRecords ==
    {RecordMsg("a", PyInt(1)), RecordMsg("b", PyFloat(50)),
     PyDict(<<<<"points", PyInt(0)>>>>), PyDict(<<<<"message", PyStr("c")>>>>)}

MessageItems == {PyStr(t) : t \in MessageTexts} \cup MessageRecords

\* the shapes of an indicator's message: text, one mapping, a sequence
Messages ==
    {PyStr(t) : t \in MessageTexts \cup {""}}
    \cup MessageRecords
    \cup {PyList(xs) : xs \in UNION {[1..n -> MessageItems] : n \in 0..MaxMessageItems}}

InitFmt ==
    /\ message_data \in Messages
    /\ output_message = Unset
    /\ pc = "format"
    /\ args = Unset
    /\ metadata_endpoint = Unset
    /\ is_api_running = FALSE
    /\ i = 0
    /\ connects = 0
    /\ connect_result = Unset
    /\ requests = <<>>
    /\ terms = Unset
    /\ j = 0
    /\ ind = ""
    /\ good = 0
    /\ title = Unset
    /\ identifier = Unset
    /\ r = Unset
    /\ results = Unset
    /\ score_results = Unset
    /\ totals = Unset
    /\ printed = {}
    /\ stored = {}
    /\ term = Running

\* output_message = format_msg_for_table(message_data)
CallFormat ==
    /\ pc = "format"
    /\ LET o == format_msg_for_table(message_data)
       IN IF o.ok
          THEN output_message' = PyStr(o.val) /\ pc' = "done" /\ UNCHANGED term
          ELSE End(Uncaught(o.exc)) /\ UNCHANGED output_message
    /\ UNCHANGED <<args, metadata_endpoint, is_api_running, i, connects, connect_result, requests,
                   terms, j, ind, good, title, identifier, r, results, score_results,
                   totals, printed, stored, message_data>>

NextFmt == CallFormat

SpecFmt == InitFmt /\ [][NextFmt]_vars

----------------------------------------------------------------------------
(* Claims about calcpoints (SpecCalc) *)

RECURSIVE WeightSum(_, _)
\* the sum of the weights of the first n indicators
WeightSum(indicators, n) ==
    IF n = 0 THEN 0 ELSE WeightSum(indicators, n - 1) + indicators[n].score.weight

RECURSIVE WeightedSum(_, _)
\* the sum of points * weight of the first n indicators, in hundredths
WeightedSum(indicators, n) ==
    IF n = 0 THEN 0
    ELSE WeightedSum(indicators, n - 1)
           + Hundredths(indicators[n].points) * indicators[n].score.weight

\* s is num / den rounded to the nearest unit, a tie going to the even unit
IsRounded(s, num, den) ==
    LET gap == IF num - s * den < 0 THEN s * den - num ELSE num - s * den
    IN 2 * gap <= den /\ (2 * gap = den => s % 2 = 0)

\* the indicators of all four principles together
AllIndicators(result) ==
    result["findable"] \o result["accessible"] \o result["interoperable"] \o result["reusable"]

\* every principle has an indicator and every weight is positive
PositiveAndComplete(result) ==
    \A p \in PrincipleSet :
        /\ Len(result[p]) > 0
        /\ \A n \in 1..Len(result[p]) : result[p][n].score.weight > 0

\* the orders in which the four principles can be visited
PrincipleOrders ==
    {o \in [1..4 -> PrincipleSet] : \A a, b \in 1..4 : a # b => o[a] # o[b]}

\* the evaluation result without the two display fields calcpoints adds
Unannotated(result) ==
    [p \in DOMAIN result |->
        [n \in 1..Len(result[p]) |->
            [f \in DOMAIN result[p][n] \ {"indicator", "name_smart"} |-> result[p][n][f]]]]

\* C1: when every principle has an indicator and all weights are positive,
\* calcpoints returns, for each principle, sum(points*weight)/sum(weight) over
\* the principle's indicators rounded to 3 decimals, and as total the same
\* quotient over the indicators of all four principles rounded to 2 decimals;
\* the total is the same in whatever order the principles are visited.
C1_WeightedAverages ==
    (pc = "done" /\ PositiveAndComplete(results.val)) =>
        /\ term = Running
        /\ \A p \in PrincipleSet :
              IsRounded(totals.val[p],
                        10 * WeightedSum(results.val[p], Len(results.val[p])),
                        WeightSum(results.val[p], Len(results.val[p])))
        /\ LET all == AllIndicators(results.val)
           IN IsRounded(totals.val["total"], WeightedSum(all, Len(all)), WeightSum(all, Len(all)))
        /\ \A o \in PrincipleOrders :
              calcpoints_in(o, Unannotated(results.val)).points["total"] = totals.val["total"]

\* findable holds the indicators (1, weight 2) and (0.5, weight 1): 2.5/3 is
\* 0.833; with (0.5, weight 1) in the other three principles the total is 4/6
C1_Witness ==
    /\ pc = "done"
    /\ PositiveAndComplete(results.val)
    /\ Len(results.val["findable"]) = 2
    /\ totals.val["findable"] = 833
    /\ totals.val["total"] = 67

\* C6: a principle without indicators, or whose weights sum to zero, gives a
\* defined empty-principle outcome: not a raw ZeroDivisionError and not a score
\* silently set to zero.
C6_EmptyPrincipleDefined ==
    (pc = "done" /\ \E p \in PrincipleSet :
                        WeightSum(results.val[p], Len(results.val[p])) = 0) =>
        /\ term # Uncaught("ZeroDivisionError")
        /\ term = Running =>
              \A p \in PrincipleSet :
                  WeightSum(results.val[p], Len(results.val[p])) = 0 => totals.val[p] # 0

----------------------------------------------------------------------------
(* Claims about format_msg_for_table (SpecFmt) *)

\* a record with both of its fields
IsFullRecord(item) ==
    IsDict(item) /\ DictHas(item, "message") /\ DictHas(item, "points")

RECURSIVE Lines(_)
\* the texts of a non-empty sequence, one per line
Lines(texts) ==
    IF Len(texts) = 1 THEN texts[1]
    ELSE Lines(SubSeq(texts, 1, Len(texts) - 1)) \o "\n" \o texts[Len(texts)]

\* how a number of a record is shown
ShownNumber(v) ==
    CASE v = PyInt(0) -> "0"
      [] v = PyInt(1) -> "1"
      [] v = PyFloat(50) -> "0.5"

\* the display text the rules give for a message, "no rule" when none applies
DisplayText(md) ==
    CASE md.type = "str" -> md.val
      [] md.type = "dict" /\ md = RecordMsg("a", PyInt(1)) -> "{'message': 'a', 'points': 1}"
      [] md.type = "dict" /\ md = RecordMsg("b", PyFloat(50)) -> "{'message': 'b', 'points': 0.5}"
      [] md.type = "dict" /\ md = PyDict(<<<<"points", PyInt(0)>>>>) -> "{'points': 0}"
      [] md.type = "dict" /\ md = PyDict(<<<<"message", PyStr("c")>>>>) -> "{'message': 'c'}"
      [] md.type = "list" /\ Len(md.items) = 0 -> "Not available"
      [] md.type = "list" /\ Len(md.items) > 0 /\ \A n \in 1..Len(md.items) : IsStr(md.items[n]) ->
            Lines([n \in 1..Len(md.items) |-> md.items[n].val])
      [] md.type = "list" /\ Len(md.items) = 1 /\ IsDict(md.items[1]) ->
            IF DictHas(md.items[1], "message") THEN DictGet(md.items[1], "message").val
            ELSE "Not available"
      [] md.type = "list" /\ Len(md.items) > 1 /\ \A n \in 1..Len(md.items) : IsFullRecord(md.items[n]) ->
            Lines([n \in 1..Len(md.items) |->
                      DictGet(md.items[n], "message").val \o " (points: "
                          \o ShownNumber(DictGet(md.items[n], "points")) \o ")"])
      [] OTHER -> "no rule"

\* C8: format_msg_for_table shows plain text verbatim, a single mapping as its
\* string representation, an empty sequence as "Not available", a sequence of
\* texts joined by newlines, a sequence of one record as the record's message
\* ("Not available" without one), and a longer sequence of records as
\* "<message> (points: <points>)" per record, joined by newlines.
C8_MessageRules ==
    (pc = "done" /\ DisplayText(message_data) # "no rule") =>
        /\ term = Running
        /\ output_message = PyStr(DisplayText(message_data))

\* two records are shown with their points, one per line
C8_Witness ==
    /\ pc = "done"
    /\ message_data = PyList(<<RecordMsg("a", PyInt(1)), RecordMsg("b", PyFloat(50))>>)
    /\ output_message = PyStr("a (points: 1)\nb (points: 0.5)")

----------------------------------------------------------------------------
(* Claims about main() and search() (Spec) *)

\* a request of the given kind has been sent
Sent(kind) == \E n \in 1..Len(requests) : requests[n] = kind

\* a table or the JSON result has been printed
Rendered == printed \cap {"summary_table", "indicator_table", "json"} # {}

\* the readiness loop has run and is over
ProbeOver == i > 0 /\ pc # "probe"

\* C2: the readiness loop makes one connection attempt per pass and at most 4;
\* the attempt that finds the port open is the last one; after 4 attempts that
\* all failed there is no fifth, and the process ends with a non-zero exit
\* status, no search or evaluation request having been sent.
C2_ReadinessLoop ==
    /\ [](connects = i /\ connects <= 4)
    /\ []((i > 0 /\ connect_result = PyInt(0)) => (is_api_running /\ ProbeOver))
    /\ []((i > 0 /\ connect_result # PyInt(0)) => ~is_api_running)
    /\ []((ProbeOver /\ ~is_api_running) =>
            /\ connects = 4
            /\ pc \in {"probed", "done"}
            /\ ~Sent("search") /\ ~Sent("evaluate")
            /\ pc = "done" => (term.kind = "exit" /\ ExitStatus(term) # 0))
    /\ [][(pc = "probe" => connects' = connects + 1)
          /\ (pc # "probe" => connects' = connects)
          /\ ((pc = "probed" /\ ~is_api_running) => pc' = "done")]_vars

\* the port opened at the third attempt and the run went on to evaluate
C2_Witness ==
    /\ is_api_running
    /\ connects = 3
    /\ Sent("evaluate")
    /\ pc = "done"

\* the texts of InputTexts that are integers, with their values
IntegerTexts == {"-1", "7", "1", "0"}
IntegerValue(text) ==
    CASE text = "-1" -> -1
      [] text = "7" -> 7
      [] text = "1" -> 1
      [] text = "0" -> 0

\* text is an integer in [0, n - 1]
ValidIndex(text, n) ==
    text \in IntegerTexts /\ 0 <= IntegerValue(text) /\ IntegerValue(text) <= n - 1

\* C3: search reads at most 5 inputs; an input that is no integer in
\* [0, n - 1] uses up one attempt and raises nothing; the first input that is
\* one ends the loop, and search returns the id of the candidate at that
\* index; after 5 invalid inputs search returns no identifier.
C3_Disambiguation ==
    /\ [](j <= 5)
    /\ [](pc = "input" => (good = 0 /\ j < 5))
    /\ [](pc = "chosen" =>
            IF good = 1 THEN ValidIndex(ind, Len(terms.distributions)) ELSE j = 5)
    /\ [][pc = "input" =>
            /\ j' = j + 1
            /\ term' = Running
            /\ IF ValidIndex(ind', Len(terms.distributions))
               THEN good' = 1 /\ pc' = "chosen"
               ELSE good' = 0 /\ pc' = (IF j' = 5 THEN "chosen" ELSE "input")]_vars
    /\ [][pc = "chosen" =>
            identifier' = IF good = 1
                          THEN PyStr(terms.distributions[IntegerValue(ind) + 1].id)
                          ELSE PyTuple(<<>>)]_vars

\* search returned candidate 1 after an input that was not a number
C3_Witness ==
    /\ pc = "log"
    /\ identifier = PyStr("cand1")
    /\ title = PyStr("title1")
    /\ "hint" \in printed

\* search has given up: it returned the empty tuple
NothingSelected == identifier = PyTuple(<<>>)

\* C4: when disambiguation uses up its 5 attempts, main treats it as "no item
\* selected": no evaluation request, nothing rendered or stored, and the run
\* ends cleanly, not with an unhandled error.
C4_ExhaustionEndsCleanly ==
    (NothingSelected /\ pc = "done") =>
        /\ ~Sent("evaluate")
        /\ ~Rendered
        /\ stored = {}
        /\ term.kind # "exception"

\* C5: no request goes to the service (endpoint lookup, search, evaluation)
\* before the readiness loop has succeeded.
C5_ProbeGatesRequests == requests # <<>> => is_api_running

\* the evaluation answered with success
EvaluationOk == r # Unset /\ r.status_code < 400

\* C7: a successful evaluation response without the requested identifier is
\* taken as an empty result: row collection gives zero rows and raises nothing.
C7_MissingIdentifierIsEmpty ==
    (EvaluationOk /\ r.body.key # identifier.val /\ pc # "collect") =>
        /\ score_results = PyList(<<>>)
        /\ term # Uncaught("KeyError")

\* C9: when the evaluation response is not a success, main exits with its
\* status code, and no rows are collected, nothing is printed as table or
\* JSON, and nothing is stored.
C9_FailedEvaluationExits ==
    (r # Unset /\ r.status_code >= 400) =>
        /\ pc = "done"
        /\ term = Exited(PyInt(r.status_code))
        /\ score_results = Unset
        /\ ~Rendered
        /\ stored = {}

\* the evaluation answered 404 and the process exited with 404
C9_Witness ==
    /\ r # Unset
    /\ r.status_code = 404
    /\ term = Exited(PyInt(404))
    /\ pc = "done"

\* the endpoint lookup answered 404
PluginNotFound == "plugin_not_found" \in printed

\* C10: when the endpoint lookup answers 404, or the readiness loop is used up,
\* the process ends with a non-zero exit status and the evaluation request is
\* never sent.
C10_FatalFailures ==
    (pc = "done" /\ (PluginNotFound \/ (ProbeOver /\ ~is_api_running))) =>
        /\ ExitStatus(term) # 0
        /\ ~Sent("evaluate")

\* search() holds a search response that lists no candidate
NoCandidates == terms # Unset /\ Len(terms.distributions) = 0

\* C11: when the search response holds no result items, an empty
\* "distributions" list included, search fails as not found and ends the
\* process before the operator is asked for an index.
C11_NoCandidatesNotFound ==
    NoCandidates => (pc = "done" /\ term.kind = "exit" /\ ExitStatus(term) # 0 /\ j = 0)

----------------------------------------------------------------------------
(* store on its own: a call with any file format *)

MaxStoreRows == 2

\* file formats a caller may pass
FileFormats == {"feather", "csv", "xml", "json"}

\* identifiers a caller may pass: --id texts, or the id of a search candidate
StoreIdentifiers == {PyStr("abc123"), PyStr("id1"), PyInt(7)}

\* rows as collect_score_data builds them: four cells, the score an integer
\* or a "%.2f" text, which pd.to_numeric accepts
StoreRows == {IndicatorRow(ind_result).val : ind_result \in {IndF, IndA, IndNoMsg}}

\* score_data: lists of up to MaxStoreRows rows
ScoreData == UNION {[1..n -> StoreRows] : n \in 0..MaxStoreRows}

InitStore ==
    /\ args \in [identifier : StoreIdentifiers, score_data : ScoreData,
                 file_format : FileFormats]
    /\ pc = "store"
    /\ metadata_endpoint = Unset
    /\ is_api_running = FALSE
    /\ i = 0
    /\ connects = 0
    /\ connect_result = Unset
    /\ requests = <<>>
    /\ terms = Unset
    /\ j = 0
    /\ ind = ""
    /\ good = 0
    /\ title = Unset
    /\ identifier = Unset
    /\ r = Unset
    /\ results = Unset
    /\ score_results = Unset
    /\ totals = Unset
    /\ printed = {}
    /\ stored = {}
    /\ term = Running
    /\ message_data = Unset
    /\ output_message = Unset

\* store(identifier, score_data, file_format)
CallStore ==
    /\ pc = "store"
    /\ LET o == store(args.identifier, args.score_data, args.file_format)
       IN /\ stored' = stored \cup o.files
          /\ IF o.end = Running THEN End(Returned(PyNone)) ELSE End(o.end)
    /\ UNCHANGED <<args, metadata_endpoint, is_api_running, i, connects, connect_result, requests,
                   terms, j, ind, good, title, identifier, r, results, score_results,
                   totals, printed, message_data, output_message>>

NextStore == CallStore

SpecStore == InitStore /\ [][NextStore]_vars

----------------------------------------------------------------------------
(* C12 *)

\* the text of an identifier of StoreIdentifiers in a file name
IdentifierText(id) == IF id = PyInt(7) THEN "7" ELSE id.val

\* the one file the call is to leave behind
ExpectedFile ==
    "/tmp/fair_eva_results-" \o IdentifierText(args.identifier) \o "." \o args.file_format

\* C12: in store, a file format other than feather and csv ends the process
\* with a non-zero exit status and no file written; with feather or csv the
\* call writes exactly one file, fair_eva_results-<identifier>.<format> under
\* the output directory, and no file exists before the call has acted.
C12_StoreFormats ==
    /\ pc = "store" => stored = {}
    /\ (pc = "done" /\ args.file_format \notin {"feather", "csv"}) =>
           (ExitStatus(term) # 0 /\ stored = {})
    /\ (pc = "done" /\ args.file_format \in {"feather", "csv"}) =>
           stored = {ExpectedFile}

============================================================================
